---- MODULE Spec2Model ----
(***************************************************************************)
(* ForgeryNet_FHE: the React front-end's data flow (App.tsx) over the      *)
(* remote key-value ledger.                                                *)
(*                                                                         *)
(* Every browser (client) runs one App component.  Its async handlers      *)
(* (loadArtworks, uploadArtwork, markAsAuthentic / markAsForgery) suspend  *)
(* at each await; one action of this module is one handler run from one    *)
(* await to the next.  The ledger (getData / setData / isAvailable of      *)
(* ./contract, which is not part of the sources) is modelled from the      *)
(* interface section of the specification.                                 *)
(*                                                                         *)
(* Strings that the code inspects (accounts, labels, payload sources) are  *)
(* sequences of one-character strings; record ids and ledger keys are      *)
(* numbers standing for the id strings.                                    *)
(***************************************************************************)
EXTENDS Integers, Sequences, FiniteSets, TLC

\* ------------------------------------------------------------- bounds
\* Number of distinct record ids the id generator can produce.
MaxIds == 2
\* Range of the client clocks: Math.floor(Date.now() / 1000) is in 1..MaxTime.
MaxTime == 1
\* Status-clear timers (plus mutating operations in flight) per client.
MaxTimers == 1
\* Longest index an external writer leaves in the store (InitRefresh).
MaxIndexLen == 2
\* Range of the timestamps an external writer leaves in the store.
MaxStamp == 2
\* User gestures (clicks) and wallet events in one behaviour.
MaxGestures == 4

Clients == {"c1", "c2"}
\* The three places of App.tsx that run loadArtworks: the tail of
\* uploadArtwork, the tail of markAs..., and the Refresh button / mount effect.
Kinds == {"up", "mark", "ref"}
Ids == 1..MaxIds
Stamps == 1..MaxTime

\* ------------------------------------------------------------ strings
EmptyStr == <<>>

toLowerChar(ch) ==
    CASE ch = "A" -> "a"
      [] ch = "B" -> "b"
      [] ch = "C" -> "c"
      [] ch = "D" -> "d"
      [] ch = "E" -> "e"
      [] ch = "F" -> "f"
      [] ch = "G" -> "g"
      [] ch = "H" -> "h"
      [] ch = "I" -> "i"
      [] ch = "J" -> "j"
      [] ch = "K" -> "k"
      [] ch = "L" -> "l"
      [] ch = "M" -> "m"
      [] ch = "N" -> "n"
      [] ch = "O" -> "o"
      [] ch = "P" -> "p"
      [] ch = "Q" -> "q"
      [] ch = "R" -> "r"
      [] ch = "S" -> "s"
      [] ch = "T" -> "t"
      [] ch = "U" -> "u"
      [] ch = "V" -> "v"
      [] ch = "W" -> "w"
      [] ch = "X" -> "x"
      [] ch = "Y" -> "y"
      [] ch = "Z" -> "z"
      [] OTHER -> ch

\* String.prototype.toLowerCase
toLowerCase(s) == [i \in 1..Len(s) |-> toLowerChar(s[i])]

\* Accounts each client's wallet can report (accounts[0]); c2's wallet reports
\* c1's first address in lower case.
WalletAccounts(c) == IF c = "c1" THEN {<<"A">>, <<"b">>} ELSE {<<"a">>}

\* What the upload form can hold: a field is empty or filled. Each client
\* types its own artwork name.
Labels(c) == IF c = "c1" THEN {<<"M">>} ELSE {<<"s">>}
Sources == {<<"x">>}
\* A payload source with a character outside Latin-1: btoa throws on it.
NonLatin1 == <<"~">>

\* ------------------------------------------------------- ledger blobs
\* A value stored under a ledger key: no bytes, bytes that JSON.parse rejects,
\* the JSON array of ids, or the JSON object of one artwork.
EmptyBlob == [k |-> "empty"]
GarbageBlob == [k |-> "garbage"]
KeysBlob(keys) == [k |-> "keys", keys |-> keys]
ArtworkBlob(data, timestamp, owner, artworkName, status) ==
    [k |-> "artwork", data |-> data, timestamp |-> timestamp, owner |-> owner,
     artworkName |-> artworkName, status |-> status]

\* Ledger keys: "artwork_keys" is 0, `artwork_${id}` is id.
KeysKey == 0
ArtworkKey(id) == id
LedgerKeys == {KeysKey} \cup {ArtworkKey(id) : id \in Ids}

VARIABLES
    store,              \* the ledger: key -> blob
    account,            \* useState account
    provider,           \* useState provider (TRUE: set)
    listening,          \* an accountsChanged handler is registered
    loading,            \* useState loading
    isRefreshing,       \* useState isRefreshing
    uploading,          \* useState uploading
    artworks,           \* useState artworks: the Record Store
    transactionStatus,  \* useState transactionStatus
    failure,            \* history: the error behind the error status a client shows
    searchTerm,         \* useState searchTerm
    timers,             \* pending setTimeout callbacks that clear the status
    pc,                 \* where each handler run of a client is suspended
    loader,             \* locals of a running loadArtworks: keys, cursor, list
    upl,                \* locals of a running uploadArtwork
    mrk,                \* locals of a running markAs...
    calls,              \* history: the createRecord calls that succeeded
    clean,              \* history: how many refreshes in a row (0, 1, 2 or
                        \* more) replaced artworks[c] with every read succeeding
    gestures,           \* history: user gestures and wallet events so far
    artworkCounter,     \* contract: uint256 artworkCounter
    encryptedArtworks,  \* contract: mapping artworks (id -> EncryptedArtwork)
    shareCounter,       \* contract: uint256 shareCounter
    modelShares,        \* contract: mapping modelShares
    sharesByArtwork,    \* contract: mapping sharesByArtwork (id -> uint256[])
    results,            \* contract: mapping results
    encryptedAggregates,            \* contract: mapping encryptedAggregates
    decryptionRequestToArtwork,     \* contract: mapping decryptionRequestToArtwork
    decryptionRequests, \* FHE runtime: request id -> the cleartext it will sign
    receipt,            \* the last transaction sent to the contract and its outcome
    everShared,         \* history: artwork ids a model share was accepted for
    everRequested       \* history: artwork ids a decryption was requested for

vars == <<store, account, provider, listening, loading, isRefreshing,
          uploading, artworks, transactionStatus, failure, timers, pc, loader, upl, mrk,
          calls, clean, gestures, searchTerm,
          artworkCounter, encryptedArtworks, shareCounter, modelShares, sharesByArtwork,
          results, encryptedAggregates, decryptionRequestToArtwork, decryptionRequests,
          receipt, everShared, everRequested>>

\* The front end's variables, and the contract's with the FHE runtime's.
appVars == <<store, account, provider, listening, loading, isRefreshing,
             uploading, artworks, transactionStatus, failure, timers, pc, loader, upl, mrk,
             calls, clean, gestures, searchTerm>>
storageVars == <<artworkCounter, encryptedArtworks, shareCounter, modelShares,
                 sharesByArtwork, results, encryptedAggregates, decryptionRequestToArtwork>>
contractVars == <<storageVars, decryptionRequests, receipt,
                  everShared, everRequested>>

walletVars == <<account, provider, listening>>

\* A click or a wallet event happens, within the bound.
gesture ==
    gestures < MaxGestures /\ gestures' = gestures + 1 /\ UNCHANGED <<searchTerm, contractVars>>

\* ---------------------------------------------------------- the ledger
\* get(key): the bytes under key, empty when absent.
getData(key) == store[key]

\* set(key, value), acknowledged: the store holds value under key.
setData(key, value) == store' = [store EXCEPT ![key] = value]

\* --------------------------------------------------------- pure helpers
\* Lines 93-101 and 177-185: keys = [] unless the blob is non-empty and parses.
parseKeys(keysBytes) == IF keysBytes.k = "keys" THEN keysBytes.keys ELSE <<>>

\* Line 117: artworkData.status || "pending"
statusOrPending(s) == IF s = "" THEN "pending" ELSE s

\* Lines 111-118: the ArtworkRecord pushed for a parsed blob.
toRecord(key, artworkData) ==
    [id |-> key, encryptedData |-> artworkData.data,
     timestamp |-> artworkData.timestamp, owner |-> artworkData.owner,
     artworkName |-> artworkData.artworkName,
     status |-> statusOrPending(artworkData.status)]

\* Variant of insertDesc that puts x in front, whatever its timestamp.
insertFront(s, x) == <<x>> \o s

\* Insert x into s (sorted by timestamp, descending) behind every element that
\* does not sort after it: Array.prototype.sort is stable.
insertDesc(s, x) ==
    LET n == Cardinality({i \in 1..Len(s) : s[i].timestamp >= x.timestamp})
    IN  SubSeq(s, 1, n) \o <<x>> \o SubSeq(s, n + 1, Len(s))

RECURSIVE sortDesc(_)
\* Line 128: list.sort((a, b) => b.timestamp - a.timestamp)
sortDesc(list) ==
    IF list = <<>> THEN <<>>
    ELSE insertDesc(sortDesc(SubSeq(list, 1, Len(list) - 1)), list[Len(list)])

\* Line 153: `FHE-${btoa(JSON.stringify(newArtworkData))}`
encrypt(artworkName, hyperspectralData) == <<"FHE-", artworkName, hyperspectralData>>

\* Lines 354-356.
isOwner(acct, address) == toLowerCase(acct) = toLowerCase(address)

Range(s) == {s[i] : i \in 1..Len(s)}

NoLoad == [keys |-> <<>>, i |-> 0, list |-> <<>>, thrown |-> {}]
NoUpload == [id |-> 0]
NoMark == [id |-> 0]
\* No error is being reported.
NoFailure == ""
Hidden == [visible |-> FALSE, status |-> "pending", message |-> <<>>]
Shown(status, message) == [visible |-> TRUE, status |-> status, message |-> message]

LoadPcs == {"lAvail", "lUnavail", "lKeys", "lItem", "lFinish"}

\* ----------------------------------------------------------- view model
\* Lines 41-43: artworks.filter(a => a.status === status).length
countStatus(list, status) == Cardinality({n \in 1..Len(list) : list[n].status = status})
authenticCount(list) == countStatus(list, "authentic")
forgeryCount(list) == countStatus(list, "forgery")
pendingCount(list) == countStatus(list, "pending")

\* Variant of chartTotal without the guard.
chartTotalUnguarded(list) == Len(list)

\* Line 382: artworks.length || 1
chartTotal(list) == IF Len(list) = 0 THEN 1 ELSE Len(list)

\* Lines 383-385: (count / total) * 100, kept as the fraction num / den.
percentage(count, total) == [num |-> count * 100, den |-> total]
authenticPercentage(list) == percentage(authenticCount(list), chartTotal(list))
forgeryPercentage(list) == percentage(forgeryCount(list), chartTotal(list))
pendingPercentage(list) == percentage(pendingCount(list), chartTotal(list))

\* Variant of includes that looks for the term at the start only.
startsWith(s, t) == Len(t) <= Len(s) /\ SubSeq(s, 1, Len(t)) = t

\* String.prototype.includes
includes(s, t) == \E i \in 0..(Len(s) - Len(t)) : SubSeq(s, i + 1, i + Len(t)) = t

\* Lines 46-49.
filteredArtworks(list, term) ==
    LET keep(artwork) ==
            \/ includes(toLowerCase(artwork.artworkName), toLowerCase(term))
            \/ includes(toLowerCase(artwork.owner), toLowerCase(term))
    IN  SelectSeq(list, keep)

\* ---------------------------------------------------------------- Init
\* ------------------------------------------------- the contract's data
\* ForgeryNetFHE.sol.  Bounds on the contract's counters, on the decryption
\* requests the FHE runtime takes and on the block timestamp.
MaxArtworkCounter == 2
MaxShareCounter == 2
MaxRequests == 1
MaxBlockTime == 1

\* Arguments a caller may pass: ids run one past the counter's bound, so that
\* an id the contract has not issued always exists.
ArtworkIds == 0..(MaxArtworkCounter + 1)
ShareIds == 0..MaxShareCounter
RequestIds == 0..MaxRequests
BlockTimes == 1..MaxBlockTime
Senders == {"p1", "p2"}
ZeroAddress == "0x0"

\* euint32 and euint64: the handle 0 (uninitialized), or a ciphertext, which
\* the model lets stand for the plaintext it encrypts.
\* A uint32 is kept as its two 16-bit halves, so that sums wrap at 2^32.
Half == 2^16
uint32(n) == [hi |-> (n \div Half) % Half, lo |-> n % Half]
MaxUint32 == [hi |-> Half - 1, lo |-> Half - 1]
plus(x, y) ==
    [hi |-> (x.hi + y.hi + ((x.lo + y.lo) \div Half)) % Half, lo |-> (x.lo + y.lo) % Half]
greater(x, n) == x.hi > 0 \/ x.lo > n
Uninitialized == [initialized |-> FALSE, value |-> uint32(0)]
Ciphertext(v) == [initialized |-> TRUE, value |-> v]

\* The FHE library calls of lines 116-124 and 132: arithmetic on euint32 is
\* the plaintexts' arithmetic modulo 2^32.
isInitialized(e) == e.initialized
asEuint32(n) == Ciphertext(uint32(n))
add(a, b) == Ciphertext(plus(a.value, b.value))

\* The decisions a participant submits: votes of 0 and 1, a score above the
\* confidence cap, and one that wraps the accumulator.
Decisions == {uint32(0), uint32(1), uint32(150), MaxUint32}
EncryptedDecisions == {Ciphertext(v) : v \in Decisions}
Fingerprint == Ciphertext(uint32(7))
Meta == Ciphertext(uint32(9))

\* The zero values Solidity's mappings hold before a write and after delete.
NoArtwork == [id |-> 0, encryptedFingerprint |-> Uninitialized,
              encryptedMeta |-> Uninitialized, uploadedAt |-> 0]
NoShare == [artworkId |-> 0, submitter |-> ZeroAddress,
            encryptedDecision |-> Uninitialized, submittedAt |-> 0]
NoResult == [artworkId |-> 0, verdict |-> "", confidence |-> uint32(0), revealed |-> FALSE]
NoRequest == [pending |-> FALSE, value |-> uint32(0)]
NoReceipt == [fn |-> "constructor", arg |-> 0, data |-> uint32(0), status |-> "ok"]

\* Lines 40-53 and 68: the storage of a freshly deployed contract.
InitContract ==
    /\ artworkCounter = 0
    /\ encryptedArtworks = [id \in ArtworkIds |-> NoArtwork]
    /\ shareCounter = 0
    /\ modelShares = [sid \in ShareIds |-> NoShare]
    /\ sharesByArtwork = [id \in ArtworkIds |-> <<>>]
    /\ results = [id \in ArtworkIds |-> NoResult]
    /\ encryptedAggregates = [id \in ArtworkIds |-> Uninitialized]
    /\ decryptionRequestToArtwork = [reqId \in RequestIds |-> 0]
    /\ decryptionRequests = [reqId \in RequestIds |-> NoRequest]
    /\ receipt = NoReceipt
    /\ everShared = {}
    /\ everRequested = {}

\* The state after App has mounted: the mount effect (lines 51-53) has called
\* loadArtworks, which has set isRefreshing and awaits the contract.
InitClients ==
    /\ account = [c \in Clients |-> EmptyStr]
    /\ provider = [c \in Clients |-> FALSE]
    /\ listening = [c \in Clients |-> FALSE]
    /\ loading = [c \in Clients |-> TRUE]
    /\ isRefreshing = [c \in Clients |-> TRUE]
    /\ uploading = [c \in Clients |-> FALSE]
    /\ artworks = [c \in Clients |-> <<>>]
    /\ transactionStatus = [c \in Clients |-> Hidden]
    /\ failure = [c \in Clients |-> NoFailure]
    /\ searchTerm = [c \in Clients |-> EmptyStr]
    /\ timers = [c \in Clients |-> 0]
    /\ pc = [c \in Clients |-> [k \in Kinds |-> IF k = "ref" THEN "lAvail" ELSE "idle"]]
    /\ loader = [c \in Clients |-> [k \in Kinds |-> NoLoad]]
    /\ upl = [c \in Clients |-> NoUpload]
    /\ mrk = [c \in Clients |-> NoMark]
    /\ calls = <<>>
    /\ clean = [c \in Clients |-> 0]
    /\ gestures = 0
    /\ InitContract

Init ==
    /\ store = [key \in LedgerKeys |-> EmptyBlob]
    /\ InitClients

\* -------------------------------------------------------- loadArtworks
\* Lines 132-135 (finally), then what the caller does once the awaited
\* loadArtworks() has settled: lines 202-210 and 225-227 for uploadArtwork,
\* lines 276-278 / 338-340 for markAs..., nothing for the button.
loadFinally(c, k) ==
    /\ isRefreshing' = [isRefreshing EXCEPT ![c] = FALSE]
    /\ loading' = [loading EXCEPT ![c] = FALSE]
    /\ loader' = [loader EXCEPT ![c][k] = NoLoad]
    /\ pc' = [pc EXCEPT ![c][k] = "idle"]
    /\ timers' = IF k = "ref" THEN timers ELSE [timers EXCEPT ![c] = @ + 1]
    /\ uploading' = IF k = "up" THEN [uploading EXCEPT ![c] = FALSE] ELSE uploading
    /\ upl' = IF k = "up" THEN [upl EXCEPT ![c] = NoUpload] ELSE upl
    /\ mrk' = IF k = "mark" THEN [mrk EXCEPT ![c] = NoMark] ELSE mrk
    /\ UNCHANGED <<store, walletVars, transactionStatus, failure, calls>>

\* Lines 82-90: no contract, or isAvailable() throws (the outer catch), or it
\* answers; the answer false is acted on in loadUnavailable.
loadAvailable(c, k) ==
    /\ pc[c][k] = "lAvail"
    /\ UNCHANGED <<gestures, searchTerm, contractVars>>
    /\ \/ loadFinally(c, k) /\ UNCHANGED <<artworks, clean>>
       \/ /\ \E isAvailable \in BOOLEAN :
                pc' = [pc EXCEPT ![c][k] = IF isAvailable THEN "lKeys" ELSE "lUnavail"]
          /\ UNCHANGED <<store, walletVars, loading, isRefreshing, uploading, artworks,
                         transactionStatus, failure, timers, loader, upl, mrk, calls, clean>>

\* Lines 87-90: isAvailable is false: log, return (through finally).
loadUnavailable(c, k) ==
    /\ pc[c][k] = "lUnavail"
    /\ UNCHANGED <<gestures, searchTerm, contractVars>>
    /\ loadFinally(c, k)
    /\ UNCHANGED <<artworks, clean>>

\* Lines 92-103: fetch and parse the index; a throwing getData leaves through
\* the outer catch.
loadKeys(c, k) ==
    /\ pc[c][k] = "lKeys"
    /\ UNCHANGED <<gestures, searchTerm, contractVars>>
    /\ \/ loadFinally(c, k) /\ UNCHANGED <<artworks, clean>>
       \/ /\ LET keys == parseKeys(getData(KeysKey))
             IN  /\ loader' = [loader EXCEPT ![c][k] =
                                  [keys |-> keys, i |-> 0, list |-> <<>>, thrown |-> {}]]
                 /\ pc' = [pc EXCEPT ![c][k] = IF keys = <<>> THEN "lFinish" ELSE "lItem"]
          /\ UNCHANGED <<store, walletVars, loading, isRefreshing, uploading, artworks,
                         transactionStatus, failure, timers, upl, mrk, calls, clean>>

\* Variant of pushParsed in which a blob that does not parse ends the scan's
\* work so far instead of being skipped.
pushParsedOrReset(list, key, artworkBytes) ==
    IF artworkBytes.k = "artwork" THEN Append(list, toRecord(key, artworkBytes))
    ELSE <<>>

\* Lines 108-122: what one fetched blob adds to the list.
pushParsed(list, key, artworkBytes) ==
    IF artworkBytes.k = "artwork" THEN Append(list, toRecord(key, artworkBytes))
    ELSE list

\* Variant of loadItem that calls setArtworks inside the loop, showing the list
\* gathered so far.
loadItemPublishing(c, k) ==
    /\ pc[c][k] = "lItem"
    /\ UNCHANGED <<gestures, searchTerm, contractVars>>
    /\ LET l == loader[c][k]
           n == l.i + 1
           key == l.keys[n]
       IN  /\ \/ loader' = [loader EXCEPT ![c][k] =
                                [l EXCEPT !.i = n, !.thrown = @ \cup {n}]]
              \/ loader' = [loader EXCEPT ![c][k] =
                                [l EXCEPT !.i = n,
                                          !.list = pushParsed(@, key, getData(ArtworkKey(key)))]]
           /\ pc' = [pc EXCEPT ![c][k] = IF n = Len(l.keys) THEN "lFinish" ELSE "lItem"]
    /\ artworks' = [artworks EXCEPT ![c] = loader'[c][k].list]
    /\ UNCHANGED <<store, walletVars, loading, isRefreshing, uploading,
                   transactionStatus, failure, timers, upl, mrk, calls, clean>>

\* Lines 105-126: one iteration of the loop: getData throws (skip the key) or
\* answers.
loadItem(c, k) ==
    /\ pc[c][k] = "lItem"
    /\ UNCHANGED <<gestures, searchTerm, contractVars>>
    /\ LET l == loader[c][k]
           n == l.i + 1
           key == l.keys[n]
       IN  /\ \/ loader' = [loader EXCEPT ![c][k] =
                                [l EXCEPT !.i = n, !.thrown = @ \cup {n}]]
              \/ loader' = [loader EXCEPT ![c][k] =
                                [l EXCEPT !.i = n,
                                          !.list = pushParsed(@, key, getData(ArtworkKey(key)))]]
           /\ pc' = [pc EXCEPT ![c][k] = IF n = Len(l.keys) THEN "lFinish" ELSE "lItem"]
    /\ UNCHANGED <<store, walletVars, loading, isRefreshing, uploading, artworks,
                   transactionStatus, failure, timers, upl, mrk, calls, clean>>

\* Variant of setArtworks that adds the fetched list to the Record Store
\* instead of replacing it.
setArtworksAppend(old, list) == old \o sortDesc(list)

\* Lines 128-129: what setArtworks stores.
setArtworks(old, list) == sortDesc(list)

\* Lines 128-135: sort, replace the Record Store, finally.
loadFinish(c, k) ==
    /\ pc[c][k] = "lFinish"
    /\ UNCHANGED <<gestures, searchTerm, contractVars>>
    /\ artworks' = [artworks EXCEPT ![c] = setArtworks(@, loader[c][k].list)]
    /\ clean' = [clean EXCEPT ![c] =
           IF loader[c][k].thrown # {} THEN 0 ELSE IF @ = 0 THEN 1 ELSE 2]
    /\ loadFinally(c, k)

\* Lines 502-507: the Refresh button, enabled while isRefreshing is false.
refresh(c) ==
    /\ ~loading[c]
    /\ ~isRefreshing[c]
    /\ pc[c]["ref"] = "idle"
    /\ gesture
    /\ isRefreshing' = [isRefreshing EXCEPT ![c] = TRUE]
    /\ pc' = [pc EXCEPT ![c]["ref"] = "lAvail"]
    /\ UNCHANGED <<store, walletVars, loading, uploading, artworks, transactionStatus, failure,
                   timers, loader, upl, mrk, calls, clean>>

loadArtworks(c, k) ==
    \/ loadAvailable(c, k)
    \/ loadUnavailable(c, k)
    \/ loadKeys(c, k)
    \/ loadItem(c, k)
    \/ loadFinish(c, k)

\* ------------------------------------------------------------ errors
\* What a rejected ledger write carries in e.message.
UserRejected == "user rejected transaction"
LedgerError == "network error"
WriteErrors == {UserRejected, LedgerError}
ReadError == LedgerError
NoSigner == "Failed to get contract with signer"
NotFound == "Artwork not found"
BadJson == "Unexpected token"
BadChar == "Invalid character"

\* Mutating handler runs of c that have not yet scheduled their clear timer.
mutating(c) == Cardinality({k \in {"up", "mark"} : pc[c][k] # "idle"})

\* A client starts a mutating operation only while its timers stay bounded.
timerRoom(c) == timers[c] + mutating(c) < MaxTimers

\* ------------------------------------------------------- uploadArtwork
\* Lines 212-214.
uploadErrorMessage(e) ==
    IF e = UserRejected THEN <<"Transaction rejected by user">>
    ELSE <<"Submission failed: ", e>>

\* Variant of uploadCatch that goes on to the refresh after reporting the
\* error.
uploadCatchRefreshing(c, e) ==
    /\ failure' = [failure EXCEPT ![c] = e]
    /\ transactionStatus' = [transactionStatus EXCEPT ![c] = Shown("error", uploadErrorMessage(e))]
    /\ isRefreshing' = [isRefreshing EXCEPT ![c] = TRUE]
    /\ pc' = [pc EXCEPT ![c]["up"] = "lAvail"]
    /\ UNCHANGED <<store, walletVars, loading, uploading, artworks, timers, loader, upl,
                   mrk, calls, clean>>

\* Lines 211-227: catch, then finally.
uploadCatch(c, e) ==
    /\ failure' = [failure EXCEPT ![c] = e]
    /\ transactionStatus' = [transactionStatus EXCEPT ![c] = Shown("error", uploadErrorMessage(e))]
    /\ timers' = [timers EXCEPT ![c] = @ + 1]
    /\ uploading' = [uploading EXCEPT ![c] = FALSE]
    /\ pc' = [pc EXCEPT ![c]["up"] = "idle"]
    /\ upl' = [upl EXCEPT ![c] = NoUpload]
    /\ UNCHANGED <<store, walletVars, loading, isRefreshing, artworks, loader, mrk,
                   calls, clean>>

\* Lines 138-155: the synchronous head of uploadArtwork, up to the first await.
\* Without a provider it alerts and returns (no state changes). account is the
\* value the handler's closure holds: the one current at the click.
uploadArtwork(c, artworkName, hyperspectralData) ==
    /\ provider[c]
    /\ timerRoom(c)
    /\ gesture
    /\ IF hyperspectralData = NonLatin1
       THEN uploadCatch(c, BadChar)
       ELSE /\ uploading' = [uploading EXCEPT ![c] = TRUE]
            /\ failure' = [failure EXCEPT ![c] = NoFailure]
            /\ transactionStatus' = [transactionStatus EXCEPT ![c] =
                   Shown("pending", <<"Encrypting hyperspectral data with FHE...">>)]
            /\ upl' = [upl EXCEPT ![c] =
                   [id |-> 0, data |-> encrypt(artworkName, hyperspectralData),
                    owner |-> account[c], artworkName |-> artworkName, keys |-> <<>>]]
            /\ pc' = [pc EXCEPT ![c]["up"] = "uSetRecord"]
            /\ UNCHANGED <<store, walletVars, loading, isRefreshing, artworks, timers,
                           loader, mrk, calls, clean>>

\* Lines 638-645 (ModalUpload): the Submit button, disabled while uploading;
\* with a required field empty it alerts and returns.
handleSubmit(c) ==
    /\ ~loading[c]
    /\ ~uploading[c]
    /\ pc[c]["up"] = "idle"
    /\ \E artworkName \in Labels(c) \cup {EmptyStr},
          hyperspectralData \in Sources \cup {NonLatin1, EmptyStr} :
            /\ artworkName # EmptyStr
            /\ hyperspectralData # EmptyStr
            /\ uploadArtwork(c, artworkName, hyperspectralData)

\* Line 160: ids the generator has not produced before.
freshIds ==
    {id \in Ids : /\ store[ArtworkKey(id)] = EmptyBlob
                  /\ id \notin Range(parseKeys(store[KeysKey]))
                  /\ \A c \in Clients : upl[c].id # id}

\* Variant of uploadSetRecordFailed in which the record's write is not awaited:
\* its rejection goes unnoticed and the handler moves on to the index.
uploadSetRecordUnawaited(c, e) ==
    /\ \E artworkId \in freshIds : upl' = [upl EXCEPT ![c].id = artworkId]
    /\ pc' = [pc EXCEPT ![c]["up"] = "uGetKeys"]
    /\ UNCHANGED <<store, walletVars, loading, isRefreshing, uploading, artworks,
                   transactionStatus, failure, timers, loader, mrk, calls, clean>>

\* Lines 171-174 when setData rejects: control passes to the catch.
uploadSetRecordFailed(c, e) == uploadCatch(c, e)

\* Lines 155-174: the signer, the id, the record, and the record's write.
uploadSetRecord(c) ==
    /\ pc[c]["up"] = "uSetRecord"
    /\ UNCHANGED <<gestures, searchTerm, contractVars>>
    /\ \/ uploadCatch(c, NoSigner)
       \/ \E e \in WriteErrors : uploadSetRecordFailed(c, e)
       \/ \E artworkId \in freshIds, timestamp \in Stamps :
            /\ setData(ArtworkKey(artworkId),
                       ArtworkBlob(upl[c].data, timestamp, upl[c].owner,
                                   upl[c].artworkName, "pending"))
            /\ upl' = [upl EXCEPT ![c].id = artworkId]
            /\ pc' = [pc EXCEPT ![c]["up"] = "uGetKeys"]
            /\ UNCHANGED <<walletVars, loading, isRefreshing, uploading, artworks,
                           transactionStatus, failure, timers, loader, mrk, calls, clean>>

\* Variant of pushKey that forgets the ids the index held.
pushKeyAlone(keys, artworkId) == <<artworkId>>

\* Line 187: keys.push(artworkId)
pushKey(keys, artworkId) == Append(keys, artworkId)

\* Lines 176-187: fetch the index, parse it, push the new id.
uploadGetKeys(c) ==
    /\ pc[c]["up"] = "uGetKeys"
    /\ UNCHANGED <<gestures, searchTerm, contractVars>>
    /\ \/ uploadCatch(c, ReadError)
       \/ /\ upl' = [upl EXCEPT ![c].keys = pushKey(parseKeys(getData(KeysKey)), upl[c].id)]
          /\ pc' = [pc EXCEPT ![c]["up"] = "uSetKeys"]
          /\ UNCHANGED <<store, walletVars, loading, isRefreshing, uploading, artworks,
                         transactionStatus, failure, timers, loader, mrk, calls, clean>>

\* Lines 189-200: write the index; acknowledged, report success and call
\* loadArtworks (whose synchronous head sets isRefreshing).
uploadSetKeys(c) ==
    /\ pc[c]["up"] = "uSetKeys"
    /\ UNCHANGED <<gestures, searchTerm, contractVars>>
    /\ \/ \E e \in WriteErrors : uploadCatch(c, e)
       \/ /\ setData(KeysKey, KeysBlob(upl[c].keys))
          /\ failure' = [failure EXCEPT ![c] = NoFailure]
          /\ transactionStatus' = [transactionStatus EXCEPT ![c] =
                 Shown("success", <<"Encrypted data submitted securely!">>)]
          /\ calls' = Append(calls, [id |-> upl[c].id, owner |-> upl[c].owner,
                                     artworkName |-> upl[c].artworkName])
          /\ isRefreshing' = [isRefreshing EXCEPT ![c] = TRUE]
          /\ pc' = [pc EXCEPT ![c]["up"] = "lAvail"]
          /\ UNCHANGED <<walletVars, loading, uploading, artworks, timers, loader,
                         upl, mrk, clean>>

\* ------------------------------------------ markAsAuthentic / markAsForgery
\* Variant of markErrorMessage that reports every failure in the same words.
markErrorMessageFixed(newStatus, e) ==
    IF newStatus = "authentic" THEN <<"Verification failed">>
    ELSE <<"Analysis failed">>

\* Lines 280-284 and 342-346.
markErrorMessage(newStatus, e) ==
    IF newStatus = "authentic" THEN <<"Verification failed: ", e>>
    ELSE <<"Analysis failed: ", e>>

\* Lines 268-272 and 330-334.
markSuccessMessage(newStatus) ==
    IF newStatus = "authentic"
    THEN <<"FHE verification completed - Artwork is authentic!">>
    ELSE <<"FHE analysis completed - Artwork is a forgery!">>

\* Variant of markCatch that swallows the failure: the status is taken down and
\* no error is shown.
markCatchSilent(c, e) ==
    /\ failure' = [failure EXCEPT ![c] = NoFailure]
    /\ transactionStatus' = [transactionStatus EXCEPT ![c] = Hidden]
    /\ pc' = [pc EXCEPT ![c]["mark"] = "idle"]
    /\ mrk' = [mrk EXCEPT ![c] = NoMark]
    /\ UNCHANGED <<store, walletVars, loading, isRefreshing, uploading, artworks,
                   timers, loader, upl, calls, clean>>

\* Lines 279-289 and 341-351: catch.
markCatch(c, e) ==
    /\ failure' = [failure EXCEPT ![c] = e]
    /\ transactionStatus' = [transactionStatus EXCEPT ![c] =
           Shown("error", markErrorMessage(mrk[c].status, e))]
    /\ timers' = [timers EXCEPT ![c] = @ + 1]
    /\ pc' = [pc EXCEPT ![c]["mark"] = "idle"]
    /\ mrk' = [mrk EXCEPT ![c] = NoMark]
    /\ UNCHANGED <<store, walletVars, loading, isRefreshing, uploading, artworks,
                   loader, upl, calls, clean>>

\* Lines 535-548: the two buttons are rendered for a listed record that the
\* connected account owns and whose cached status is pending.
canMark(c, artworkId) ==
    \E n \in 1..Len(artworks[c]) :
        /\ artworks[c][n].id = artworkId
        /\ isOwner(account[c], artworks[c][n].owner)
        /\ artworks[c][n].status = "pending"

\* Lines 230-240 and 292-302: the synchronous head of markAsAuthentic
\* (newStatus "authentic") and markAsForgery ("forgery").
markAs(c, artworkId, newStatus) ==
    /\ ~loading[c]
    /\ canMark(c, artworkId)
    /\ provider[c]
    /\ pc[c]["mark"] = "idle"
    /\ timerRoom(c)
    /\ gesture
    /\ failure' = [failure EXCEPT ![c] = NoFailure]
    /\ transactionStatus' = [transactionStatus EXCEPT ![c] =
           Shown("pending", <<"Processing encrypted data with FHE...">>)]
    /\ mrk' = [mrk EXCEPT ![c] = [id |-> artworkId, status |-> newStatus, data |-> EmptyBlob]]
    /\ pc' = [pc EXCEPT ![c]["mark"] = "mGet"]
    /\ UNCHANGED <<store, walletVars, loading, isRefreshing, uploading, artworks, timers,
                   loader, upl, calls, clean>>

markAsAuthentic(c, artworkId) == markAs(c, artworkId, "authentic")
markAsForgery(c, artworkId) == markAs(c, artworkId, "forgery")

\* Variant of markFetched without the length check: empty bytes reach
\* JSON.parse, which throws.
markFetchedUnchecked(c, artworkBytes) ==
    IF artworkBytes.k = "artwork"
    THEN /\ mrk' = [mrk EXCEPT ![c].data = artworkBytes]
         /\ pc' = [pc EXCEPT ![c]["mark"] = "mSet"]
         /\ UNCHANGED <<store, walletVars, loading, isRefreshing, uploading, artworks,
                        transactionStatus, failure, timers, loader, upl, calls, clean>>
    ELSE markCatch(c, BadJson)

\* Lines 251-256 and 313-318: what the fetched bytes lead to.
markFetched(c, artworkBytes) ==
    IF artworkBytes.k = "artwork"
    THEN /\ mrk' = [mrk EXCEPT ![c].data = artworkBytes]
         /\ pc' = [pc EXCEPT ![c]["mark"] = "mSet"]
         /\ UNCHANGED <<store, walletVars, loading, isRefreshing, uploading, artworks,
                        transactionStatus, failure, timers, loader, upl, calls, clean>>
    ELSE markCatch(c, IF artworkBytes.k = "empty" THEN NotFound ELSE BadJson)

\* Lines 244-256 and 306-318: the 3 s delay, the signer, the record's fetch.
markGet(c) ==
    /\ pc[c]["mark"] = "mGet"
    /\ UNCHANGED <<gestures, searchTerm, contractVars>>
    /\ \/ markCatch(c, NoSigner)
       \/ markCatch(c, ReadError)
       \/ markFetched(c, getData(ArtworkKey(mrk[c].id)))

\* Variant of updatedArtwork that writes the record back without its payload.
updatedArtworkBare(artworkData, newStatus) ==
    [artworkData EXCEPT !.status = newStatus, !.data = EmptyStr]

\* Lines 258-261 and 320-323: { ...artworkData, status }
updatedArtwork(artworkData, newStatus) == [artworkData EXCEPT !.status = newStatus]

\* Variant of markSet in which the ledger accepts the write only while the
\* stored record is pending.
markSetFirstWins(c) ==
    /\ pc[c]["mark"] = "mSet"
    /\ UNCHANGED <<gestures, searchTerm, contractVars>>
    /\ \/ \E e \in WriteErrors : markCatch(c, e)
       \/ /\ IF getData(ArtworkKey(mrk[c].id)).status = "pending"
             THEN setData(ArtworkKey(mrk[c].id), updatedArtwork(mrk[c].data, mrk[c].status))
             ELSE UNCHANGED store
          /\ failure' = [failure EXCEPT ![c] = NoFailure]
          /\ transactionStatus' = [transactionStatus EXCEPT ![c] =
                 Shown("success", markSuccessMessage(mrk[c].status))]
          /\ isRefreshing' = [isRefreshing EXCEPT ![c] = TRUE]
          /\ pc' = [pc EXCEPT ![c]["mark"] = "lAvail"]
          /\ UNCHANGED <<walletVars, loading, uploading, artworks, timers, loader,
                         upl, mrk, calls, clean>>

\* Lines 263-274 and 325-336: write the record back; acknowledged, report
\* success and call loadArtworks.
markSet(c) ==
    /\ pc[c]["mark"] = "mSet"
    /\ UNCHANGED <<gestures, searchTerm, contractVars>>
    /\ \/ \E e \in WriteErrors : markCatch(c, e)
       \/ /\ setData(ArtworkKey(mrk[c].id), updatedArtwork(mrk[c].data, mrk[c].status))
          /\ failure' = [failure EXCEPT ![c] = NoFailure]
          /\ transactionStatus' = [transactionStatus EXCEPT ![c] =
                 Shown("success", markSuccessMessage(mrk[c].status))]
          /\ isRefreshing' = [isRefreshing EXCEPT ![c] = TRUE]
          /\ pc' = [pc EXCEPT ![c]["mark"] = "lAvail"]
          /\ UNCHANGED <<walletVars, loading, uploading, artworks, timers, loader,
                         upl, mrk, calls, clean>>

\* Lines 202-210, 222-224, 276-278, 286-288: a clear timer fires.
clearStatus(c) ==
    /\ timers[c] > 0
    /\ UNCHANGED <<gestures, searchTerm, contractVars>>
    /\ timers' = [timers EXCEPT ![c] = @ - 1]
    /\ failure' = [failure EXCEPT ![c] = NoFailure]
    /\ transactionStatus' = [transactionStatus EXCEPT ![c] = Hidden]
    /\ UNCHANGED <<store, walletVars, loading, isRefreshing, uploading, artworks, pc,
                   loader, upl, mrk, calls, clean>>

\* --------------------------------------------------------------- wallet
\* Lines 55-71: a wallet with a provider is selected: setProvider, then
\* eth_requestAccounts answers (account = accounts[0] || "", and the
\* accountsChanged handler is registered) or throws (alert: the provider stays
\* set, the account is not touched).
onWalletSelect(c) ==
    /\ ~loading[c]
    /\ gesture
    /\ provider' = [provider EXCEPT ![c] = TRUE]
    /\ \/ \E acc \in WalletAccounts(c) \cup {EmptyStr} :
            /\ account' = [account EXCEPT ![c] = acc]
            /\ listening' = [listening EXCEPT ![c] = TRUE]
       \/ UNCHANGED <<account, listening>>
    /\ UNCHANGED <<store, loading, isRefreshing, uploading, artworks,
                   transactionStatus, failure, timers, pc, loader, upl, mrk, calls, clean>>

\* Lines 64-67: accountsChanged.
onAccountsChanged(c) ==
    /\ listening[c]
    /\ gesture
    /\ \E newAcc \in (WalletAccounts(c) \cup {EmptyStr}) \ {account[c]} :
            account' = [account EXCEPT ![c] = newAcc]
    /\ UNCHANGED <<store, provider, listening, loading, isRefreshing, uploading,
                   artworks, transactionStatus, failure, timers, pc, loader, upl, mrk, calls,
                   clean>>

\* Lines 74-77.
onDisconnect(c) ==
    /\ ~loading[c]
    /\ account[c] # EmptyStr \/ provider[c]
    /\ gesture
    /\ account' = [account EXCEPT ![c] = EmptyStr]
    /\ provider' = [provider EXCEPT ![c] = FALSE]
    /\ UNCHANGED <<store, listening, loading, isRefreshing, uploading, artworks,
                   transactionStatus, failure, timers, pc, loader, upl, mrk, calls, clean>>

\* ------------------------------------------------------- specifications
wallet(c) ==
    \/ onWalletSelect(c)
    \/ onAccountsChanged(c)
    \/ onDisconnect(c)

upload(c) ==
    \/ uploadSetRecord(c)
    \/ uploadGetKeys(c)
    \/ uploadSetKeys(c)
    \/ loadArtworks(c, "up")

mark(c) ==
    \/ markGet(c)
    \/ markSet(c)
    \/ loadArtworks(c, "mark")

\* Every client, every handler, any interleaving, from the empty ledger.
Next ==
    \E c \in Clients :
        \/ wallet(c)
        \/ handleSubmit(c)
        \/ upload(c)
        \/ \E artworkId \in Ids : markAsAuthentic(c, artworkId) \/ markAsForgery(c, artworkId)
        \/ mark(c)
        \/ refresh(c)
        \/ loadArtworks(c, "ref")
        \/ clearStatus(c)

Spec == Init /\ [][Next]_vars

\* No handler run is in flight anywhere.
Quiescent == \A c \in Clients, k \in Kinds : pc[c][k] = "idle"

\* Operations run one after another: a click starts an operation only when
\* nothing is in flight; uploads and refreshes only.
NextSeq ==
    \E c \in Clients :
        \/ wallet(c)
        \/ Quiescent /\ handleSubmit(c)
        \/ upload(c)
        \/ Quiescent /\ refresh(c)
        \/ loadArtworks(c, "ref")
        \/ clearStatus(c)

SpecSeq == Init /\ [][NextSeq]_vars

\* Sequences over S of length at most n.
SeqsUpTo(S, n) == UNION {[1..m -> S] : m \in 0..n}

\* The status field other writers can leave in a record blob: one of the
\* three the front end writes, none, or a string of their own.
ForeignStatuses == {"pending", "authentic", "forgery", "", "restored"}

\* What other writers of the shared ledger can leave under a record key and
\* under the index key.
ForeignRecords ==
    {EmptyBlob, GarbageBlob} \cup
    {ArtworkBlob(encrypt(<<"M">>, <<"x">>), timestamp, <<"A">>, <<"M">>, status) :
        timestamp \in 1..MaxStamp, status \in ForeignStatuses}

ForeignIndexes ==
    {EmptyBlob, GarbageBlob} \cup {KeysBlob(keys) : keys \in SeqsUpTo(Ids, MaxIndexLen)}

\* A ledger that other writers have filled, which no one writes any more.
InitRefresh ==
    /\ store \in {f \in [LedgerKeys -> ForeignRecords \cup ForeignIndexes] :
                    /\ f[KeysKey] \in ForeignIndexes
                    /\ \A id \in Ids : f[ArtworkKey(id)] \in ForeignRecords}
    /\ InitClients

\* Refreshes only, by one client, over a ledger that does not change.
NextRefresh == \E c \in {"c1"} : refresh(c) \/ loadArtworks(c, "ref")

SpecRefresh == InitRefresh /\ [][NextRefresh]_vars

\* The record a client listed at its last refresh: pending, owned by "A".
WarmRecord == ArtworkBlob(encrypt(<<"M">>, <<"x">>), 1, <<"A">>, <<"M">>, "pending")

\* What the ledger holds under that record's key by now.
WarmRecords ==
    {EmptyBlob, GarbageBlob} \cup
    {[WarmRecord EXCEPT !.status = status] : status \in {"pending", "authentic", "forgery"}}

\* Both clients have mounted, connected a wallet and listed record 1 while it
\* was pending; other writers may have rewritten the record since.
InitWarm ==
    /\ store \in {f \in [LedgerKeys -> WarmRecords \cup {KeysBlob(<<1>>)}] :
                    /\ f[KeysKey] = KeysBlob(<<1>>)
                    /\ f[ArtworkKey(1)] \in WarmRecords
                    /\ \A id \in Ids \ {1} : f[ArtworkKey(id)] = EmptyBlob}
    /\ account \in {f \in [Clients -> UNION {WalletAccounts(c) : c \in Clients}] :
                      \A c \in Clients : f[c] \in WalletAccounts(c)}
    /\ provider = [c \in Clients |-> TRUE]
    /\ listening = [c \in Clients |-> TRUE]
    /\ loading = [c \in Clients |-> FALSE]
    /\ isRefreshing = [c \in Clients |-> FALSE]
    /\ uploading = [c \in Clients |-> FALSE]
    /\ artworks = [c \in Clients |-> <<toRecord(1, WarmRecord)>>]
    /\ transactionStatus = [c \in Clients |-> Hidden]
    /\ failure = [c \in Clients |-> NoFailure]
    /\ searchTerm = [c \in Clients |-> EmptyStr]
    /\ timers = [c \in Clients |-> 0]
    /\ pc = [c \in Clients |-> [k \in Kinds |-> "idle"]]
    /\ loader = [c \in Clients |-> [k \in Kinds |-> NoLoad]]
    /\ upl = [c \in Clients |-> NoUpload]
    /\ mrk = [c \in Clients |-> NoMark]
    /\ calls = <<>>
    /\ clean = [c \in Clients |-> 0]
    /\ gestures = 0
    /\ InitContract

\* The mutating operations of both clients, in any interleaving.
NextWarm ==
    \E c \in Clients :
        \/ handleSubmit(c)
        \/ upload(c)
        \/ \E artworkId \in Ids : markAsAuthentic(c, artworkId) \/ markAsForgery(c, artworkId)
        \/ mark(c)
        \/ clearStatus(c)

SpecWarm == InitWarm /\ [][NextWarm]_vars

\* The mutating operations of one client.
NextSolo ==
    \/ handleSubmit("c1")
    \/ upload("c1")
    \/ \E artworkId \in Ids : markAsAuthentic("c1", artworkId) \/ markAsForgery("c1", artworkId)
    \/ mark("c1")
    \/ clearStatus("c1")

\* Promises settle and timers fire: every step that needs no gesture is
\* eventually taken.
SpecSoloFair ==
    /\ InitWarm
    /\ [][NextSolo]_vars
    /\ WF_vars(upload("c1")) /\ WF_vars(mark("c1")) /\ WF_vars(clearStatus("c1"))

\* Client c1, the owner of record 1, has had a transition refused by the
\* wallet (lines 279-288: the error is shown and its 3 s timer is armed) and
\* has pressed a mark button again before that timer fires (lines 236-240,
\* 298-302: the new operation shows pending and awaits the contract).
InitOverlap ==
    /\ store \in {f \in [LedgerKeys -> WarmRecords \cup {KeysBlob(<<1>>)}] :
                    /\ f[KeysKey] = KeysBlob(<<1>>)
                    /\ f[ArtworkKey(1)] \in WarmRecords
                    /\ \A id \in Ids \ {1} : f[ArtworkKey(id)] = EmptyBlob}
    /\ account = [c \in Clients |-> IF c = "c1" THEN <<"A">> ELSE <<"a">>]
    /\ provider = [c \in Clients |-> TRUE]
    /\ listening = [c \in Clients |-> TRUE]
    /\ loading = [c \in Clients |-> FALSE]
    /\ isRefreshing = [c \in Clients |-> FALSE]
    /\ uploading = [c \in Clients |-> FALSE]
    /\ artworks = [c \in Clients |-> <<toRecord(1, WarmRecord)>>]
    /\ transactionStatus =
         [c \in Clients |->
            IF c = "c1" THEN Shown("pending", <<"Processing encrypted data with FHE...">>)
            ELSE Hidden]
    /\ failure = [c \in Clients |-> NoFailure]
    /\ searchTerm = [c \in Clients |-> EmptyStr]
    /\ timers = [c \in Clients |-> IF c = "c1" THEN 1 ELSE 0]
    /\ pc = [c \in Clients |->
               [k \in Kinds |-> IF c = "c1" /\ k = "mark" THEN "mGet" ELSE "idle"]]
    /\ loader = [c \in Clients |-> [k \in Kinds |-> NoLoad]]
    /\ upl = [c \in Clients |-> NoUpload]
    /\ \E newStatus \in {"authentic", "forgery"} :
         mrk = [c \in Clients |->
                  IF c = "c1" THEN [id |-> 1, status |-> newStatus, data |-> EmptyBlob]
                  ELSE NoMark]
    /\ calls = <<>>
    /\ clean = [c \in Clients |-> 0]
    /\ gestures = 2
    /\ InitContract

\* The second operation runs on while the first one's timer is pending.
SpecOverlap == InitOverlap /\ [][NextSolo]_vars

\* Labels, owners and search terms for the filter.
MonaLisa == <<"M", "o", "n", "a", " ", "L", "i", "s", "a">>
TheScream == <<"T", "h", "e", " ", "S", "c", "r", "e", "a", "m">>
FilterNames == {MonaLisa, TheScream, <<"m", "o">>}
FilterOwners == {<<"0", "x", "A", "b">>, <<"0", "x", "m", "o">>}
SearchTerms ==
    {EmptyStr, <<"m", "o", "n", "a">>, <<"M", "O", "N", "A">>, <<"M", "o", "n", "a">>,
     <<"m", "o">>, <<"a">>, <<"0", "X", "a", "B">>, <<"x", "x">>, <<"T", "h", "e">>,
     <<"l", "i", "s", "a">>, <<"a", "m">>, <<"m", "o", "n", "a", " ", "l", "i", "s", "a", "s">>}

\* Lines 496-501: typing in the search box.
onSearchChange(c, term) ==
    /\ ~loading[c]
    /\ searchTerm' = [searchTerm EXCEPT ![c] = term]
    /\ UNCHANGED <<store, walletVars, loading, isRefreshing, uploading, artworks,
                   transactionStatus, failure, timers, pc, loader, upl, mrk, calls, clean,
                   gestures, contractVars>>

\* A client that has mounted and listed, in index order, the records of a
\* ledger holding up to MaxIds records with any of the labels and owners.
InitFilter ==
    /\ \E n \in 0..MaxIds :
         \E names \in [1..n -> FilterNames], owners \in [1..n -> FilterOwners] :
            /\ store = [key \in LedgerKeys |->
                          IF key = KeysKey THEN KeysBlob([i \in 1..n |-> i])
                          ELSE IF key \in 1..n
                               THEN ArtworkBlob(encrypt(names[key], <<"x">>), 1, owners[key],
                                                names[key], "pending")
                               ELSE EmptyBlob]
            /\ artworks = [c \in Clients |->
                             [i \in 1..n |-> toRecord(i, ArtworkBlob(encrypt(names[i], <<"x">>), 1,
                                                                     owners[i], names[i], "pending"))]]
    /\ account = [c \in Clients |-> EmptyStr]
    /\ provider = [c \in Clients |-> FALSE]
    /\ listening = [c \in Clients |-> FALSE]
    /\ loading = [c \in Clients |-> FALSE]
    /\ isRefreshing = [c \in Clients |-> FALSE]
    /\ uploading = [c \in Clients |-> FALSE]
    /\ transactionStatus = [c \in Clients |-> Hidden]
    /\ failure = [c \in Clients |-> NoFailure]
    /\ searchTerm = [c \in Clients |-> EmptyStr]
    /\ timers = [c \in Clients |-> 0]
    /\ pc = [c \in Clients |-> [k \in Kinds |-> "idle"]]
    /\ loader = [c \in Clients |-> [k \in Kinds |-> NoLoad]]
    /\ upl = [c \in Clients |-> NoUpload]
    /\ mrk = [c \in Clients |-> NoMark]
    /\ calls = <<>>
    /\ clean = [c \in Clients |-> 1]
    /\ gestures = 0
    /\ InitContract

NextFilter == \E term \in SearchTerms : onSearchChange("c1", term)

SpecFilter == InitFilter /\ [][NextFilter]_vars

\* ======================================================== ForgeryNetFHE
\* A transaction that reverts: storage and the runtime are as before it.
revert(fn, arg, data, reason) ==
    /\ receipt' = [fn |-> fn, arg |-> arg, data |-> data, status |-> reason]
    /\ UNCHANGED <<storageVars, decryptionRequests, everShared, everRequested>>

succeed(fn, arg, data) == receipt' = [fn |-> fn, arg |-> arg, data |-> data, status |-> "ok"]

\* Lines 78-94.
uploadEncryptedArtwork(encryptedFingerprint, encryptedMeta, timestamp) ==
    /\ artworkCounter < MaxArtworkCounter
    /\ LET id == artworkCounter + 1 IN
        /\ artworkCounter' = id
        /\ encryptedArtworks' =
             [encryptedArtworks EXCEPT ![id] =
                [id |-> id, encryptedFingerprint |-> encryptedFingerprint,
                 encryptedMeta |-> encryptedMeta, uploadedAt |-> timestamp]]
        /\ succeed("uploadEncryptedArtwork", id, uint32(0))
    /\ UNCHANGED <<shareCounter, modelShares, sharesByArtwork, results, encryptedAggregates,
                   decryptionRequestToArtwork, decryptionRequests, everShared, everRequested>>
    /\ UNCHANGED appVars

\* Line 101: the condition of the require, with only its upper half.
validArtworkUpper(artworkId) == artworkId <= artworkCounter

\* Line 101.
validArtwork(artworkId) == artworkId > 0 /\ artworkId <= artworkCounter

\* Lines 116-124: the accumulator after one more decision.
accumulate(aggregate, encryptedDecision) ==
    add(IF isInitialized(aggregate) THEN aggregate ELSE asEuint32(0), encryptedDecision)

\* Lines 97-128.
submitEncryptedModelShare(artworkId, encryptedDecision, sender, timestamp) ==
    /\ IF ~validArtwork(artworkId)
       THEN revert("submitEncryptedModelShare", artworkId, encryptedDecision.value,
                   "Invalid artwork")
       ELSE /\ shareCounter < MaxShareCounter
            /\ LET sid == shareCounter + 1 IN
                /\ shareCounter' = sid
                /\ modelShares' =
                     [modelShares EXCEPT ![sid] =
                        [artworkId |-> artworkId, submitter |-> sender,
                         encryptedDecision |-> encryptedDecision, submittedAt |-> timestamp]]
                /\ sharesByArtwork' =
                     [sharesByArtwork EXCEPT ![artworkId] = Append(@, sid)]
            /\ encryptedAggregates' =
                 [encryptedAggregates EXCEPT ![artworkId] = accumulate(@, encryptedDecision)]
            /\ everShared' = everShared \cup {artworkId}
            /\ succeed("submitEncryptedModelShare", artworkId, encryptedDecision.value)
            /\ UNCHANGED <<artworkCounter, encryptedArtworks, results,
                           decryptionRequestToArtwork, decryptionRequests, everRequested>>
    /\ UNCHANGED appVars

\* Line 132: the condition of the require, taking any artwork id.
hasAggregateAlways(artworkId) == TRUE

\* Line 132.
hasAggregate(artworkId) == isInitialized(encryptedAggregates[artworkId])

\* Lines 131-141.  FHE.requestDecryption returns an id it has not returned
\* before, and the runtime will sign the decryption of the handle it was given.
requestAggregatedResultDecryption(artworkId) ==
    /\ IF ~hasAggregate(artworkId)
       THEN revert("requestAggregatedResultDecryption", artworkId, uint32(0), "No aggregate")
       ELSE \E reqId \in RequestIds :
            /\ ~decryptionRequests[reqId].pending
            /\ decryptionRequests' =
                 [decryptionRequests EXCEPT ![reqId] =
                    [pending |-> TRUE, value |-> encryptedAggregates[artworkId].value]]
            /\ decryptionRequestToArtwork' =
                 [decryptionRequestToArtwork EXCEPT ![reqId] = artworkId]
            /\ everRequested' = everRequested \cup {artworkId}
            /\ succeed("requestAggregatedResultDecryption", artworkId, uint32(reqId))
            /\ UNCHANGED <<artworkCounter, encryptedArtworks, shareCounter, modelShares,
                           sharesByArtwork, results, encryptedAggregates, everShared>>
    /\ UNCHANGED appVars

\* Line 154: FHE.checkSignatures accepts the cleartext the runtime signed for
\* this request and no other.
checkSignatures(requestId, cleartexts) ==
    /\ decryptionRequests[requestId].pending
    /\ cleartexts = decryptionRequests[requestId].value

\* Lines 195-202, without the cap.
computeConfidenceUncapped(aggregated) == aggregated

\* Lines 195-202.
computeConfidence(aggregated) == IF greater(aggregated, 100) THEN uint32(100) ELSE aggregated

\* Line 161.
verdictOf(aggregateValue) ==
    IF greater(aggregateValue, 0) THEN "likely_forgery" ELSE "likely_authentic"

\* Line 151: the condition of the require, taking any request id.
knownRequestAlways(artworkId) == TRUE

\* Line 151.
knownRequest(artworkId) == artworkId # 0

\* The cleartexts a caller of the callback may present: the signed one, and
\* others.
Cleartexts == {uint32(0), uint32(5)} \cup {decryptionRequests[reqId].value : reqId \in RequestIds}

\* Lines 144-172.
onAggregatesDecrypted(requestId, cleartexts) ==
    /\ LET artworkId == decryptionRequestToArtwork[requestId] IN
        IF ~knownRequest(artworkId)
        THEN revert("onAggregatesDecrypted", requestId, cleartexts, "Unknown request")
        ELSE IF ~checkSignatures(requestId, cleartexts)
        THEN revert("onAggregatesDecrypted", requestId, cleartexts, "Invalid signatures")
        ELSE LET aggregateValue == cleartexts IN
            /\ results' =
                 [results EXCEPT ![artworkId] =
                    [artworkId |-> artworkId, verdict |-> verdictOf(aggregateValue),
                     confidence |-> computeConfidence(aggregateValue), revealed |-> TRUE]]
            /\ succeed("onAggregatesDecrypted", requestId, cleartexts)
            /\ UNCHANGED <<artworkCounter, encryptedArtworks, shareCounter, modelShares,
                           sharesByArtwork, encryptedAggregates, decryptionRequestToArtwork,
                           decryptionRequests, everShared, everRequested>>
    /\ UNCHANGED appVars

\* Lines 210-217, deleting the accumulator with the shares.
pruneSharesAndAggregate(artworkId) ==
    /\ modelShares' = [sid \in ShareIds |->
                         IF sid \in Range(sharesByArtwork[artworkId])
                         THEN NoShare ELSE modelShares[sid]]
    /\ sharesByArtwork' = [sharesByArtwork EXCEPT ![artworkId] = <<>>]
    /\ encryptedAggregates' = [encryptedAggregates EXCEPT ![artworkId] = Uninitialized]
    /\ succeed("pruneShares", artworkId, uint32(0))
    /\ UNCHANGED <<artworkCounter, encryptedArtworks, shareCounter, results,
                   decryptionRequestToArtwork, decryptionRequests, everShared, everRequested>>
    /\ UNCHANGED appVars

\* Lines 210-217.
pruneShares(artworkId) ==
    /\ modelShares' = [sid \in ShareIds |->
                         IF sid \in Range(sharesByArtwork[artworkId])
                         THEN NoShare ELSE modelShares[sid]]
    /\ sharesByArtwork' = [sharesByArtwork EXCEPT ![artworkId] = <<>>]
    /\ succeed("pruneShares", artworkId, uint32(0))
    /\ UNCHANGED <<artworkCounter, encryptedArtworks, shareCounter, results,
                   encryptedAggregates, decryptionRequestToArtwork, decryptionRequests,
                   everShared, everRequested>>
    /\ UNCHANGED appVars

\* Transactions of any sender, in any order, on a freshly deployed contract.
NextContract ==
    \/ \E timestamp \in BlockTimes : uploadEncryptedArtwork(Fingerprint, Meta, timestamp)
    \/ \E artworkId \in ArtworkIds, encryptedDecision \in EncryptedDecisions,
          sender \in Senders, timestamp \in BlockTimes :
            submitEncryptedModelShare(artworkId, encryptedDecision, sender, timestamp)
    \/ \E artworkId \in ArtworkIds : requestAggregatedResultDecryption(artworkId)
    \/ \E requestId \in RequestIds, cleartexts \in Cleartexts :
            onAggregatesDecrypted(requestId, cleartexts)
    \/ \E artworkId \in ArtworkIds : pruneShares(artworkId)

SpecContract == Init /\ [][NextContract]_vars

\* ================================================================ claims
\* The ids the stored index lists, read off the blob.
listedIds == IF store[KeysKey].k = "keys" THEN store[KeysKey].keys ELSE <<>>
listedIdsNext == IF store'[KeysKey].k = "keys" THEN store'[KeysKey].keys ELSE <<>>

\* Two lists hold the same elements the same number of times.
sameBag(a, b) ==
    /\ Len(a) = Len(b)
    /\ \A x \in Range(a) \cup Range(b) :
          Cardinality({n \in 1..Len(a) : a[n] = x}) = Cardinality({n \in 1..Len(b) : b[n] = x})

\* C1: uploadArtwork has the record's write acknowledged before it rewrites the
\* index: whoever is about to read or write the index for a new id has that
\* id's record in the store, and every id the index lists resolves to a stored
\* record.
C1_IndexEntriesResolve ==
    /\ \A id \in Range(listedIds) : store[ArtworkKey(id)].k = "artwork"
    /\ \A c \in Clients :
          pc[c]["up"] \in {"uGetKeys", "uSetKeys"} => store[ArtworkKey(upl[c].id)].k = "artwork"

\* C1 witness: two creates have gone through, and the index lists both ids.
C1_Witness == Len(listedIds) = 2 /\ listedIds[1] # listedIds[2]

\* C2: a record whose stored status is authentic or forgery keeps that status
\* in every step.
C2_StatusFinal ==
    [][\A id \in Ids :
          (store[ArtworkKey(id)].k = "artwork"
             /\ store[ArtworkKey(id)].status \in {"authentic", "forgery"})
          => (store'[ArtworkKey(id)].k = "artwork"
                /\ store'[ArtworkKey(id)].status = store[ArtworkKey(id)].status)]_vars

\* C3: when markAs... reaches its write and the account then connected is not
\* (case-insensitively) the record's owner, nothing is written and an error is
\* reported.
C3_OnlyOwnerTransitions ==
    [][\A c \in Clients :
          (pc[c]["mark"] = "mSet" /\ pc'[c]["mark"] # "mSet"
             /\ toLowerCase(account[c]) # toLowerCase(mrk[c].data.owner))
          => (store' = store /\ transactionStatus'[c].status = "error")]_vars

\* C4: an id the index lists is listed by the index after every step.
C4_IndexAppendOnly ==
    [][\A id \in Range(listedIds) : id \in Range(listedIdsNext)]_vars

\* The list holds one pending record for each successful createRecord call,
\* with the call's owner and artwork name, and nothing else.
listsCalls(list) ==
    /\ Len(list) = Len(calls)
    /\ \A n \in 1..Len(calls) :
          /\ Cardinality({m \in 1..Len(list) : list[m].id = calls[n].id}) = 1
          /\ \A m \in 1..Len(list) :
                list[m].id = calls[n].id =>
                    /\ list[m].status = "pending"
                    /\ list[m].owner = calls[n].owner
                    /\ list[m].artworkName = calls[n].artworkName

\* C5: with operations run one after another from the empty ledger, a refresh
\* whose reads all succeed replaces the Record Store with exactly one pending
\* record per createRecord call that succeeded, carrying that call's owner and
\* label.
C5_CreatesThenRefresh ==
    [][\A c \in Clients, k \in Kinds :
          (pc[c][k] = "lFinish" /\ pc'[c][k] = "idle" /\ loader[c][k].thrown = {})
          => listsCalls(artworks'[c])]_vars

\* C5 witness: two clients have each created a record, and one client's
\* refreshed Record Store holds both.
C5_Witness ==
    /\ Len(calls) = 2
    /\ calls[1].artworkName # calls[2].artworkName
    /\ Quiescent
    /\ \E c \in Clients : clean[c] >= 1 /\ Len(artworks[c]) = 2

\* C6: a refresh that found isAvailable() false leaves the Record Store empty.
C6_UnavailableEmptiesStore ==
    [][\A c \in Clients, k \in Kinds :
          (pc[c][k] = "lUnavail" /\ pc'[c][k] = "idle") => artworks'[c] = <<>>]_vars

\* C7: no record with an empty owner is ever in the ledger.
C7_NoEmptyOwner ==
    \A id \in Ids :
        store[ArtworkKey(id)].k = "artwork" => store[ArtworkKey(id)].owner # EmptyStr

\* C8: when the record write or the index write of uploadArtwork is not
\* applied, that step ends the operation with an error status, starts no
\* refresh, leaves every Record Store as it was and the index without the new
\* id; and no step of uploadArtwork before its refresh touches the Record Store.
C8_FailedWriteNoEffect ==
    [][\A c \in Clients :
          /\ (pc[c]["up"] \in {"uSetRecord", "uSetKeys"} /\ pc'[c]["up"] # pc[c]["up"]
                /\ store' = store)
             => /\ pc'[c]["up"] = "idle"
                /\ transactionStatus'[c].visible
                /\ transactionStatus'[c].status = "error"
                /\ isRefreshing' = isRefreshing
                /\ loader' = loader
                /\ artworks' = artworks
                /\ upl[c].id \notin Range(listedIdsNext)
          /\ (pc[c]["up"] \in {"idle", "uSetRecord", "uGetKeys", "uSetKeys"}
                /\ pc'[c]["up"] # pc[c]["up"])
             => artworks'[c] = artworks[c]]_vars

\* C8 witness: a client's only upload wrote its record, had the index write
\* rejected, and reports it: the record is stored, the index does not list it.
C8_Witness ==
    \E c \in Clients, id \in Ids :
        /\ gestures = 2
        /\ pc[c]["up"] = "idle"
        /\ transactionStatus[c] = Shown("error", <<"Transaction rejected by user">>)
        /\ store[ArtworkKey(id)].k = "artwork"
        /\ id \notin Range(listedIds)

RECURSIVE expected(_, _, _)
\* The records of the first n listed ids whose fetch did not throw and whose
\* blob is present and parses, in index order.
expected(keys, n, thrown) ==
    IF n = 0 THEN <<>>
    ELSE LET rest == expected(keys, n - 1, thrown)
             blob == store[ArtworkKey(keys[n])]
         IN  IF n \in thrown \/ blob.k # "artwork" THEN rest
             ELSE Append(rest, [id |-> keys[n], encryptedData |-> blob.data,
                                timestamp |-> blob.timestamp, owner |-> blob.owner,
                                artworkName |-> blob.artworkName,
                                status |-> IF blob.status = "" THEN "pending"
                                           ELSE blob.status])

\* C9: over any index and record blobs, the scan goes on after every key, and
\* the refresh replaces the Record Store with exactly the records of the
\* listed ids whose fetch did not throw and whose blob is present and parses
\* (an unparsable index lists nothing), reporting no error.
C9_RefreshBestEffort ==
    [][\A c \in Clients, k \in Kinds :
          /\ pc[c][k] = "lItem" => pc'[c][k] \in {"lItem", "lFinish"}
          /\ (pc[c][k] = "lFinish" /\ pc'[c][k] = "idle")
             => /\ sameBag(artworks'[c],
                           expected(listedIds, Len(listedIds), loader[c][k].thrown))
                /\ transactionStatus' = transactionStatus]_vars

\* C9 witness: the index lists id 1, whose blob does not parse, then id 2,
\* whose blob does; the refreshed Record Store holds the record of id 2 alone.
C9_Witness ==
    /\ listedIds = <<1, 2>>
    /\ store[ArtworkKey(1)] = GarbageBlob
    /\ store[ArtworkKey(2)].k = "artwork"
    /\ clean["c1"] >= 1
    /\ Len(artworks["c1"]) = 1
    /\ artworks["c1"][1].id = 2

\* C10: over a ledger that is not written, a refresh whose reads all succeed,
\* run after a refresh whose reads all succeeded, leaves the Record Store as
\* it was: the same records, in the same order.
C10_RefreshIdempotent ==
    [][\A c \in Clients, k \in Kinds :
          (pc[c][k] = "lFinish" /\ pc'[c][k] = "idle" /\ loader[c][k].thrown = {}
             /\ clean[c] >= 1)
          => artworks'[c] = artworks[c]]_vars

\* C10 witness: two refreshes in a row have read everything, and the Record
\* Store holds two records with the same timestamp.
C10_Witness ==
    /\ clean["c1"] = 2
    /\ Len(artworks["c1"]) = 2
    /\ artworks["c1"][1].id # artworks["c1"][2].id
    /\ artworks["c1"][1].timestamp = artworks["c1"][2].timestamp

\* C11: the write of markAsAuthentic / markAsForgery stores, under the key of
\* the record it names, the fetched record with only its status replaced, and
\* writes no other key; and in every step a stored record keeps its payload,
\* timestamp, owner and artwork name.
C11_TransitionFrame ==
    [][/\ \A c \in Clients :
            (pc[c]["mark"] = "mSet" /\ pc'[c]["mark"] = "lAvail")
            => /\ store'[ArtworkKey(mrk[c].id)].k = "artwork"
               /\ store'[ArtworkKey(mrk[c].id)].status = mrk[c].status
               /\ store'[ArtworkKey(mrk[c].id)].data = mrk[c].data.data
               /\ store'[ArtworkKey(mrk[c].id)].timestamp = mrk[c].data.timestamp
               /\ store'[ArtworkKey(mrk[c].id)].owner = mrk[c].data.owner
               /\ store'[ArtworkKey(mrk[c].id)].artworkName = mrk[c].data.artworkName
               /\ \A key \in LedgerKeys \ {ArtworkKey(mrk[c].id)} : store'[key] = store[key]
       /\ \A id \in Ids :
            store[ArtworkKey(id)].k = "artwork"
            => /\ store'[ArtworkKey(id)].k = "artwork"
               /\ store'[ArtworkKey(id)].data = store[ArtworkKey(id)].data
               /\ store'[ArtworkKey(id)].timestamp = store[ArtworkKey(id)].timestamp
               /\ store'[ArtworkKey(id)].owner = store[ArtworkKey(id)].owner
               /\ store'[ArtworkKey(id)].artworkName = store[ArtworkKey(id)].artworkName]_vars

\* C11 witness: two records are listed; one has been marked, with its owner
\* and artwork name those of the call that created it, the other is pending.
C11_Witness ==
    /\ Len(calls) = 2
    /\ \E n, m \in 1..2 :
          /\ n # m
          /\ store[ArtworkKey(calls[n].id)].status \in {"authentic", "forgery"}
          /\ store[ArtworkKey(calls[n].id)].owner = calls[n].owner
          /\ store[ArtworkKey(calls[n].id)].artworkName = calls[n].artworkName
          /\ store[ArtworkKey(calls[n].id)].data # EmptyStr
          /\ store[ArtworkKey(calls[m].id)].status = "pending"

\* C12: when markAsAuthentic / markAsForgery leaves its fetch and the ledger
\* holds nothing under the record's key, the operation is over: nothing is
\* written, no refresh is started, and an error status is shown whose cause
\* is the missing record (or the signer or the read having failed first).
C12_AbsentRecordNotFound ==
    [][\A c \in Clients :
          (pc[c]["mark"] = "mGet" /\ pc'[c]["mark"] # "mGet"
             /\ store[ArtworkKey(mrk[c].id)] = EmptyBlob)
          => /\ store' = store
             /\ pc'[c]["mark"] = "idle"
             /\ isRefreshing' = isRefreshing
             /\ loader' = loader
             /\ transactionStatus'[c].visible
             /\ transactionStatus'[c].status = "error"
             /\ failure'[c] \in {NotFound, NoSigner, ReadError}]_vars

\* C12 witness: a client has asked to mark record 1, which the ledger no
\* longer holds, and shows the error "Artwork not found".
C12_Witness ==
    \E c \in Clients :
        /\ store[ArtworkKey(1)] = EmptyBlob
        /\ pc[c]["mark"] = "idle"
        /\ failure[c] = NotFound
        /\ transactionStatus[c].visible
        /\ transactionStatus[c].status = "error"
        /\ transactionStatus[c].message[2] = "Artwork not found"

\* C16: whenever one client shows the error of a write the user rejected and
\* another client shows the error of any other failure, the two messages differ.
C16_RejectionDistinct ==
    \A c, d \in Clients :
        (/\ transactionStatus[c].visible /\ transactionStatus[c].status = "error"
         /\ transactionStatus[d].visible /\ transactionStatus[d].status = "error"
         /\ failure[c] = UserRejected
         /\ failure[d] # UserRejected)
        => transactionStatus[c].message # transactionStatus[d].message

\* C16 witness: both clients tried to mark the record authentic; one write was
\* rejected by the user, the other failed in the network, and both are shown.
C16_Witness ==
    /\ failure["c1"] = UserRejected
    /\ failure["c2"] = LedgerError
    /\ \A c \in Clients :
          /\ transactionStatus[c].visible
          /\ transactionStatus[c].status = "error"
          /\ transactionStatus[c].message[1] = "Verification failed: "

\* C20: a write of markAsAuthentic / markAsForgery that is acknowledged leaves
\* the record with that operation's status and its other fields as they were,
\* whatever status the record had reached since the operation fetched it, and
\* leaves every other key alone.
C20_LastWriteWins ==
    [][\A c \in Clients :
          (pc[c]["mark"] = "mSet" /\ pc'[c]["mark"] # "mSet"
             /\ transactionStatus'[c].status = "success")
          => /\ store'[ArtworkKey(mrk[c].id)] =
                    [store[ArtworkKey(mrk[c].id)] EXCEPT !.status = mrk[c].status]
             /\ \A key \in LedgerKeys \ {ArtworkKey(mrk[c].id)} : store'[key] = store[key]]_vars

\* C20 witness: both clients fetched record 1 while it was pending, one to
\* mark it authentic and one to mark it a forgery; both writes have been
\* acknowledged and the record has the status of one of them, its other fields
\* intact.
C20_Witness ==
    /\ \A c \in Clients :
          /\ pc[c]["mark"] \in LoadPcs
          /\ mrk[c].id = 1
          /\ mrk[c].data.status = "pending"
          /\ transactionStatus[c].status = "success"
    /\ mrk["c1"].status # mrk["c2"].status
    /\ \E c \in Clients : store[ArtworkKey(1)] = [WarmRecord EXCEPT !.status = mrk[c].status]

\* The status client c shows is visible and has the given kind.
shows(c, status) == transactionStatus[c].visible /\ transactionStatus[c].status = status
showsNext(c, status) == transactionStatus'[c].visible /\ transactionStatus'[c].status = status

C14_EmptyStoreZero ==
    \A c \in Clients :
        /\ chartTotal(artworks[c]) # 0
        /\ chartTotal(artworks[c]) = IF Len(artworks[c]) >= 1 THEN Len(artworks[c]) ELSE 1
        /\ \A p \in {authenticPercentage(artworks[c]), forgeryPercentage(artworks[c]),
                     pendingPercentage(artworks[c])} :
              /\ p.den # 0
              /\ artworks[c] = <<>> => (p.num = 0 /\ p.num \div p.den = 0)
        /\ artworks[c] = <<>>
           => /\ Len(artworks[c]) = 0
              /\ authenticCount(artworks[c]) = 0
              /\ forgeryCount(artworks[c]) = 0
              /\ pendingCount(artworks[c]) = 0

\* C14 witness: a refresh against an absent or empty index has completed and
\* left the Record Store empty.
C14_Witness ==
    /\ store[KeysKey] \in {EmptyBlob, KeysBlob(<<>>)}
    /\ clean["c1"] >= 1
    /\ pc["c1"]["ref"] = "idle"
    /\ artworks["c1"] = <<>>

\* Upper-case letters and their lower-case forms.
UpperCase == <<"A", "B", "C", "D", "E", "F", "G", "H", "I", "J", "K", "L", "M",
               "N", "O", "P", "Q", "R", "S", "T", "U", "V", "W", "X", "Y", "Z">>
LowerCase == <<"a", "b", "c", "d", "e", "f", "g", "h", "i", "j", "k", "l", "m",
               "n", "o", "p", "q", "r", "s", "t", "u", "v", "w", "x", "y", "z">>
CasePairs == {<<UpperCase[i], LowerCase[i]>> : i \in 1..Len(UpperCase)}
sameLetter(a, b) == a = b \/ <<a, b>> \in CasePairs \/ <<b, a>> \in CasePairs

\* t occurs in s, letter case aside.
occursIn(t, s) ==
    \E i \in 1..(Len(s) - Len(t) + 1) : \A j \in 1..Len(t) : sameLetter(s[i + j - 1], t[j])

\* C15: the filtered list is the Record Store's records, in store order, whose
\* artwork name or owner contains the search term, letter case aside; the
\* empty term keeps every record; and with "Mona Lisa" and "The Scream"
\* listed, "mona" in any letter case keeps the first record only.
C15_FilterExact ==
    \A c \in Clients :
        LET list == artworks[c]
            term == searchTerm[c]
            kept == {n \in 1..Len(list) :
                        occursIn(term, list[n].artworkName) \/ occursIn(term, list[n].owner)}
            shown == filteredArtworks(list, term)
        IN  /\ Len(shown) = Cardinality(kept)
            /\ \A n \in kept : shown[Cardinality({m \in kept : m <= n})] = list[n]
            /\ term = EmptyStr => shown = list
            /\ (/\ Len(list) = 2
                /\ list[1].artworkName = MonaLisa
                /\ list[2].artworkName = TheScream
                /\ list[1].owner = <<"0", "x", "A", "b">>
                /\ list[2].owner = <<"0", "x", "A", "b">>
                /\ term \in {<<"m", "o", "n", "a">>, <<"M", "O", "N", "A">>, <<"M", "o", "n", "a">>})
               => shown = <<list[1]>>

\* C15 witness: "Mona Lisa" and "The Scream" are listed, the search term is
\* "MONA", and the filtered list is the first record alone.
C15_Witness ==
    /\ Len(artworks["c1"]) = 2
    /\ artworks["c1"][1].artworkName = MonaLisa
    /\ artworks["c1"][2].artworkName = TheScream
    /\ searchTerm["c1"] = <<"M", "O", "N", "A">>
    /\ filteredArtworks(artworks["c1"], searchTerm["c1"]) = <<artworks["c1"][1]>>

\* C17: every refresh that completes, whether or not other refreshes of the
\* client are in flight or have completed before it, leaves the Record Store
\* holding its own result: the records it gathered, or nothing when it found
\* the ledger unavailable.
C17_LastCompletionWins ==
    [][\A c \in Clients, k \in Kinds :
          /\ (pc[c][k] = "lFinish" /\ pc'[c][k] = "idle")
             => sameBag(artworks'[c], loader[c][k].list)
          /\ (pc[c][k] = "lUnavail" /\ pc'[c][k] = "idle")
             => artworks'[c] = <<>>]_vars

\* C18: the Record Store of a client changes only in the step that completes
\* one of its refreshes, after the last listed id has been handled, and then
\* holds what that refresh gathered.
C18_ReplaceAtomic ==
    [][\A c \in Clients :
          artworks'[c] # artworks[c]
          => \E k \in Kinds :
                /\ pc[c][k] = "lFinish"
                /\ pc'[c][k] = "idle"
                /\ loader[c][k].i = Len(loader[c][k].keys)
                /\ sameBag(artworks'[c], loader[c][k].list)]_vars

\* C18 witness: a refresh over two listed ids has gathered the first record
\* and not yet handled the second, while the Record Store is still empty.
C18_Witness ==
    \E c \in Clients, k \in Kinds :
        /\ pc[c][k] = "lItem"
        /\ Len(loader[c][k].keys) = 2
        /\ loader[c][k].i = 1
        /\ Len(loader[c][k].list) = 1
        /\ artworks[c] = <<>>

\* C19: the Record Store is always ordered by timestamp, descending, and a
\* refresh that replaces it stores exactly the records it parsed.
C19_SortedDescending ==
    [][\A c \in Clients :
          /\ \A n \in 1..(Len(artworks'[c]) - 1) :
                artworks'[c][n].timestamp >= artworks'[c][n + 1].timestamp
          /\ \A k \in Kinds :
                (pc[c][k] = "lFinish" /\ pc'[c][k] = "idle")
                => /\ sameBag(artworks'[c], loader[c][k].list)
                   /\ Len(artworks'[c]) = Len(loader[c][k].keys)
                                          - Cardinality(loader[c][k].thrown)
                                          - Cardinality({n \in 1..Len(loader[c][k].keys) \ loader[c][k].thrown :
                                                store[ArtworkKey(loader[c][k].keys[n])].k # "artwork"})]_vars

\* C19 witness: the index lists id 1 (timestamp 1) before id 2 (timestamp 2),
\* and the refreshed Record Store lists record 2 before record 1.
C19_Witness ==
    /\ listedIds = <<1, 2>>
    /\ store[ArtworkKey(1)].k = "artwork" /\ store[ArtworkKey(1)].timestamp = 1
    /\ store[ArtworkKey(2)].k = "artwork" /\ store[ArtworkKey(2)].timestamp = 2
    /\ clean["c1"] >= 1
    /\ Len(artworks["c1"]) = 2
    /\ artworks["c1"][1].id = 2
    /\ artworks["c1"][2].id = 1


\* ------------------------------------------------------- the contract
\* The step is a transaction calling fn.
called(fn) == receipt'.fn = fn

\* C21: submitEncryptedModelShare succeeds only for an artwork id between 1
\* and artworkCounter and otherwise reverts with "Invalid artwork" changing
\* nothing; and always, every id listed in sharesByArtwork[a] is between 1 and
\* shareCounter and names a share that, unless pruned, is a share for a, and
\* no share id is listed twice, in one list or in two.
C21_SharesIndexed ==
    /\ [][called("submitEncryptedModelShare") =>
            IF receipt'.arg >= 1 /\ receipt'.arg <= artworkCounter
            THEN receipt'.status \in {"ok", "Invalid artwork"}
            ELSE receipt'.status = "Invalid artwork" /\ UNCHANGED storageVars]_vars
    /\ [](\A a \in ArtworkIds : \A i \in DOMAIN sharesByArtwork[a] :
            LET s == sharesByArtwork[a][i] IN
                /\ 1 <= s /\ s <= shareCounter
                /\ modelShares[s] # NoShare => modelShares[s].artworkId = a
                /\ \A b \in ArtworkIds : \A j \in DOMAIN sharesByArtwork[b] :
                        sharesByArtwork[b][j] = s => a = b /\ i = j)

\* Both artworks have a share listed, and a share for an id the contract
\* never issued has just been refused.
C21_Witness ==
    /\ sharesByArtwork[1] # <<>>
    /\ sharesByArtwork[2] # <<>>
    /\ receipt.fn = "submitEncryptedModelShare"
    /\ receipt.status = "Invalid artwork"
    /\ receipt.arg \in {0, MaxArtworkCounter + 1}

\* The smaller of a uint32 and 100.
capped(v) == IF v.hi = 0 /\ v.lo <= 100 THEN v ELSE uint32(100)

\* C22: every revealed result has a confidence of at most 100; the callback
\* that reveals it stores min(decrypted aggregate, 100) as the confidence and
\* the verdict "likely_forgery" exactly when the decrypted aggregate is above
\* 0, "likely_authentic" exactly when it is 0.
C22_ConfidenceCapped ==
    /\ [][called("onAggregatesDecrypted") /\ receipt'.status = "ok" =>
            LET a == decryptionRequestToArtwork[receipt'.arg]
                v == receipt'.data
            IN  /\ v = decryptionRequests[receipt'.arg].value
                /\ results'[a].revealed
                /\ results'[a].confidence = capped(v)
                /\ results'[a].verdict = "likely_forgery" <=> v # uint32(0)
                /\ results'[a].verdict = "likely_authentic" <=> v = uint32(0)]_vars
    /\ [](\A a \in ArtworkIds : results[a].revealed =>
            /\ results[a].confidence.hi = 0 /\ results[a].confidence.lo <= 100
            /\ results[a].verdict \in {"likely_forgery", "likely_authentic"})

\* An aggregate above the cap has just been revealed, as a likely forgery with
\* confidence 100.
C22_Witness ==
    /\ receipt.fn = "onAggregatesDecrypted"
    /\ receipt.status = "ok"
    /\ greater(receipt.data, 100)
    /\ \E a \in ArtworkIds :
        /\ results[a].revealed
        /\ results[a].confidence = uint32(100)
        /\ results[a].verdict = "likely_forgery"

\* C23: the callback reverts with "Unknown request" for a request id that no
\* requestAggregatedResultDecryption registered, the request reverts with
\* "No aggregate" for an artwork no share was submitted for, and so a
\* revealed result is one whose decryption was requested, for an artwork
\* that is valid and has had a share submitted.
C23_RevealNeedsRequest ==
    /\ [][called("onAggregatesDecrypted") /\ ~decryptionRequests[receipt'.arg].pending =>
            receipt'.status = "Unknown request" /\ UNCHANGED storageVars]_vars
    /\ [][called("requestAggregatedResultDecryption") /\ receipt'.arg \notin everShared =>
            receipt'.status = "No aggregate" /\ UNCHANGED storageVars]_vars
    /\ [](\A a \in ArtworkIds :
            /\ results[a].revealed => a \in everRequested
            /\ a \in everRequested => a \in everShared
            /\ a \in everShared => 1 <= a /\ a <= artworkCounter)

\* A result is revealed, and a callback for a request id that was never
\* issued has just been refused.
C23_Witness ==
    /\ \E a \in ArtworkIds : results[a].revealed
    /\ receipt.fn = "onAggregatesDecrypted"
    /\ receipt.status = "Unknown request"
    /\ ~decryptionRequests[receipt.arg].pending

\* C24: pruneShares(a) deletes every stored share that a's list names and
\* empties the list, and leaves alone a's encrypted aggregate, the results,
\* both counters, the artworks, and the shares and lists of other artworks; a
\* share accepted afterwards gets the next share id, never one used before,
\* and is added to the aggregate that was kept.
C24_PruneKeepsAggregate ==
    /\ [][called("pruneShares") =>
            LET a == receipt'.arg
                pruned == Range(sharesByArtwork[a])
            IN  /\ receipt'.status = "ok"
                /\ \A s \in pruned : modelShares'[s] = NoShare
                /\ sharesByArtwork'[a] = <<>>
                /\ UNCHANGED <<encryptedAggregates, results, artworkCounter, shareCounter,
                               encryptedArtworks, decryptionRequestToArtwork>>
                /\ \A b \in ArtworkIds \ {a} : sharesByArtwork'[b] = sharesByArtwork[b]
                /\ \A s \in ShareIds \ pruned : modelShares'[s] = modelShares[s]]_vars
    /\ [][called("submitEncryptedModelShare") /\ receipt'.status = "ok" =>
            LET a == receipt'.arg
                kept == IF encryptedAggregates[a].initialized
                        THEN encryptedAggregates[a].value ELSE uint32(0)
            IN  /\ shareCounter' = shareCounter + 1
                /\ sharesByArtwork'[a] = Append(sharesByArtwork[a], shareCounter')
                /\ \A b \in ArtworkIds : shareCounter' \notin Range(sharesByArtwork[b])
                /\ modelShares[shareCounter'] = NoShare
                /\ encryptedAggregates'[a] = Ciphertext(plus(kept, receipt'.data))]_vars
    /\ [][shareCounter' >= shareCounter]_vars

\* Artwork 1's first share was pruned, and the share accepted after that has
\* id 2 and was added to the aggregate of the first.
C24_Witness ==
    /\ shareCounter = 2
    /\ modelShares[1] = NoShare
    /\ sharesByArtwork[1] = <<2>>
    /\ modelShares[2].artworkId = 1
    /\ receipt.fn = "submitEncryptedModelShare"
    /\ receipt.status = "ok"
    /\ encryptedAggregates[1].initialized
    /\ encryptedAggregates[1].value # modelShares[2].encryptedDecision.value

\* -------------------------------------------------------- the front end
\* C25: a clear timer hides only the status of the operation that armed it:
\* the pending status of an operation that is still running, which has armed
\* no timer yet, is not hidden by the timer of an operation that ended
\* before.
C25_TimerHidesOwnStatus ==
    [][\A c \in Clients :
          shows(c, "pending") /\ timers'[c] = timers[c] - 1 => showsNext(c, "pending")]_vars

\* A loadArtworks call of the client is between its first and its last line.
refreshing(c) == \E k \in Kinds : pc[c][k] \in LoadPcs

\* C26: isRefreshing is true exactly while at least one refresh of the client
\* is in flight, and uploading exactly while its createRecord is.
C26_BusyFlags ==
    \A c \in Clients :
        /\ isRefreshing[c] <=> refreshing(c)
        /\ uploading[c] <=> pc[c]["up"] # "idle"

\* The half of C26 about uploading.
C26_UploadingWhileInFlight == \A c \in Clients : uploading[c] <=> pc[c]["up"] # "idle"

\* The half of C26 about isRefreshing, one way and the other.
C26_RefreshingImpliesFlag == \A c \in Clients : refreshing(c) => isRefreshing[c]
C26_FlagImpliesRefreshing == \A c \in Clients : isRefreshing[c] => refreshing(c)

C27_NoStatusIsPending ==
    \A c \in Clients : \A n \in 1..Len(artworks[c]) :
        store[ArtworkKey(artworks[c][n].id)].k = "artwork"
        /\ store[ArtworkKey(artworks[c][n].id)].status = ""
        => artworks[c][n].status = "pending"
====
